---- MODULE Spec2Model ----
(***************************************************************************)
(* A model of SnapDropX (src/src/snapdropx): the path guard                *)
(* (security.sanitize_path), the credential gate (security.AuthManager     *)
(* behind fastapi's HTTPBasic), and the request handlers of                *)
(* server.SnapDropXServer (list_directory, download_file, upload_files),   *)
(* and the command main.serve with security.parse_auth_string and the      *)
(* temporary certificate of security.generate_self_signed_cert.            *)
(*                                                                         *)
(* Five specifications share the variables: SpecGuard (sanitize_path on    *)
(* its own), Spec (one client, every route), SpecBrowse (listings of a     *)
(* family of trees), SpecConcurrent (two clients uploading one name) and   *)
(* SpecServe (the serve command).                                          *)
(*                                                                         *)
(* A string is a sequence of one-character strings, so that lstrip,        *)
(* splitting on "/", basenames and raw prefixes are computed on            *)
(* characters, as the code computes them.  A resolved absolute path is     *)
(* the sequence of its segments (each a string); << >> is "/".             *)
(*                                                                         *)
(* The served tree holds no symbolic links (spec.md section 3:             *)
(* "symlink-free lexical normalization"), so Path.resolve() is the         *)
(* lexical normalisation of "." and "..".                                  *)
(***************************************************************************)
EXTENDS Integers, Sequences, FiniteSets, TLC

\* ------------------------------------------------------------------------
\* Bounds of the model
\* ------------------------------------------------------------------------

\* The longest requested path the guard is tried on, in segments.
MaxSegs == 4

\* The most files one upload request carries.
MaxFiles == 2

\* The bytes one read of an uploaded file returns (1024 * 1024 in
\* server.py line 213, scaled down to the payloads of the model).
ChunkSize == 1

\* The longest --auth string parse_auth_string is tried on, in characters.
MaxAuthLen == 4

\* ------------------------------------------------------------------------
\* Names (strings as sequences of characters)
\* ------------------------------------------------------------------------

S_empty == << >>
S_dot == <<".">>
S_dotdot == <<".", ".">>
S_a == <<"a">>
S_b == <<"b">>
S_srv == <<"s", "r", "v">>
S_data == <<"d", "a", "t", "a">>
S_data_other == <<"d", "a", "t", "a", "-", "o", "t", "h", "e", "r">>
S_etc == <<"e", "t", "c">>
S_passwd == <<"p", "a", "s", "s", "w", "d">>
S_test_txt == <<"t", "e", "s", "t", ".", "t", "x", "t">>
S_subdir == <<"s", "u", "b", "d", "i", "r">>
S_nested_txt == <<"n", "e", "s", "t", "e", "d", ".", "t", "x", "t">>
S_a_txt == <<"a", ".", "t", "x", "t">>
S_b_txt == <<"b", ".", "t", "x", "t">>
S_B_txt == <<"B", ".", "t", "x", "t">>
S_A == <<"A">>
S_evil_txt == <<"e", "v", "i", "l", ".", "t", "x", "t">>
S_up_evil_txt == <<".", ".", "/", "e", "v", "i", "l", ".", "t", "x", "t">>
S_hidden == <<".", "h", "i", "d", "d", "e", "n">>
S_nope == <<"n", "o", "p", "e">>
S_user == <<"u", "s", "e", "r">>
S_pass == <<"p", "a", "s", "s">>
S_word == <<"w", "o", "r", "d">>
S_noseparator == <<"n", "o", "s", "e", "p", "a", "r", "a", "t", "o", "r">>

\* segs joined by "/" : <<a, b>> is "a/b", <<"", a>> is "/a", <<a, "">> is "a/".
RECURSIVE JoinSlash(_)
JoinSlash(segs) ==
    IF segs = << >> THEN << >>
    ELSE IF Len(segs) = 1 THEN segs[1]
    ELSE segs[1] \o <<"/">> \o JoinSlash(Tail(segs))

\* ------------------------------------------------------------------------
\* pathlib, as sanitize_path and upload_files use it
\* ------------------------------------------------------------------------

LstripNone(s) == s

\* str.lstrip("/"): the string without its leading "/" characters.
RECURSIVE Lstrip(_)
Lstrip(s) ==
    IF s # << >> /\ Head(s) = "/" THEN Lstrip(Tail(s)) ELSE s

\* s.split("/"): the segments between the separators, empty ones included.
RECURSIVE SplitSlash(_)
SplitSlash(s) ==
    IF \A i \in 1..Len(s) : s[i] # "/" THEN <<s>>
    ELSE LET k == CHOOSE i \in 1..Len(s) :
                      s[i] = "/" /\ \A j \in 1..(i - 1) : s[j] # "/"
         IN  <<SubSeq(s, 1, k - 1)>> \o SplitSlash(SubSeq(s, k + 1, Len(s)))

\* PurePosixPath(s).parts without the root: empty and "." segments are dropped.
IsPart(seg) == seg # << >> /\ seg # <<".">>

Parts(s) == SelectSeq(SplitSlash(s), IsPart)

\* PurePosixPath(s).is_absolute()
IsAbsolute(s) == s # << >> /\ Head(s) = "/"

\* base / s : an absolute s replaces base, a relative s is appended.
JoinPath(base, s) == IF IsAbsolute(s) THEN Parts(s) ELSE base \o Parts(s)

\* Path.resolve() of an absolute path in a tree without symbolic links:
\* ".." drops the last segment, and "/.." is "/".
RECURSIVE ResolveFrom(_, _)
ResolveFrom(stack, parts) ==
    IF parts = << >> THEN stack
    ELSE IF Head(parts) = <<".", ".">>
         THEN ResolveFrom(IF stack = << >> THEN stack
                          ELSE SubSeq(stack, 1, Len(stack) - 1),
                          Tail(parts))
         ELSE ResolveFrom(Append(stack, Head(parts)), Tail(parts))

Resolve(parts) == ResolveFrom(<< >>, parts)

\* str(path): "/" followed by the segments joined by "/".
Render(path) == <<"/">> \o JoinSlash(path)

IsCharPrefix(p, s) == Len(p) <= Len(s) /\ SubSeq(s, 1, Len(p)) = p

RelativeToNaive(full, base) == IsCharPrefix(Render(base), Render(full))

\* full.relative_to(base) succeeds: base's segments are a prefix of full's.
RelativeTo(full, base) ==
    Len(base) <= Len(full) /\ SubSeq(full, 1, Len(base)) = base

\* ------------------------------------------------------------------------
\* security.sanitize_path
\* ------------------------------------------------------------------------

NoPath == << <<"?">> >>

Forbidden ==
    [ok |-> FALSE, status |-> 403, detail |-> "Access denied (path traversal)",
     path |-> NoPath]

sanitize_path(base_path, requested_path) ==
    LET stripped == Lstrip(requested_path)
        full_path == Resolve(JoinPath(base_path, stripped))
    IN  IF RelativeTo(full_path, Resolve(base_path))
        THEN [ok |-> TRUE, status |-> 200, detail |-> "", path |-> full_path]
        ELSE Forbidden

PathNameWhole(s) == s

\* PurePosixPath(s).name: the last part, "" when there is none.
PathName(s) ==
    LET parts == Parts(s)
    IN  IF parts = << >> THEN << >> ELSE parts[Len(parts)]

\* ------------------------------------------------------------------------
\* security.parse_auth_string
\* ------------------------------------------------------------------------

\* ":" in auth
HasColon(auth) == \E i \in 1..Len(auth) : auth[i] = ":"

SplitLastColon(auth) ==
    LET k == CHOOSE i \in 1..Len(auth) :
                 auth[i] = ":" /\ \A j \in (i + 1)..Len(auth) : auth[j] # ":"
    IN  <<SubSeq(auth, 1, k - 1), SubSeq(auth, k + 1, Len(auth))>>

\* auth.split(":", 1) of a string with a ":" in it
SplitFirstColon(auth) ==
    LET k == CHOOSE i \in 1..Len(auth) :
                 auth[i] = ":" /\ \A j \in 1..(i - 1) : auth[j] # ":"
    IN  <<SubSeq(auth, 1, k - 1), SubSeq(auth, k + 1, Len(auth))>>

ParseError(message) ==
    [ok |-> FALSE, error |-> "ValueError", message |-> message,
     user |-> << >>, pwd |-> << >>]

parse_auth_string(auth) ==
    IF ~HasColon(auth) THEN ParseError("Auth format must be username:password")
    ELSE LET parts == SplitFirstColon(auth)
             user == parts[1]
             pwd == parts[2]
         IN  IF user = << >> \/ pwd = << >>
             THEN ParseError("Username/password cannot be empty")
             ELSE [ok |-> TRUE, error |-> "", message |-> "",
                   user |-> user, pwd |-> pwd]

\* ------------------------------------------------------------------------
\* security.AuthManager behind fastapi.security.HTTPBasic
\* ------------------------------------------------------------------------

None == "<None>"

Truthy(s) == s # None /\ s # ""

AuthManager(username, password) ==
    [username |-> username, password |-> password,
     enabled |-> Truthy(username) /\ Truthy(password)]

\* The Authorization header of a request: absent, not decodable as Basic
\* credentials, or Basic credentials.
NoHeader == [kind |-> "none", username |-> None, password |-> None]

BadHeader == [kind |-> "bad", username |-> None, password |-> None]

BasicHeader(u, p) == [kind |-> "basic", username |-> u, password |-> p]

Authorized == [ok |-> TRUE, status |-> 200, detail |-> "", www |-> ""]

Unauthorized(detail) ==
    [ok |-> FALSE, status |-> 401, detail |-> detail, www |-> "Basic"]

\* security = HTTPBasic(): the dependency verify_credentials depends on.  With
\* auto_error (the default) it raises 401 itself when the request carries no
\* Basic credentials, before verify_credentials is called.
HTTPBasic(header) ==
    IF header.kind = "none" THEN Unauthorized("Not authenticated")
    ELSE IF header.kind = "bad"
         THEN Unauthorized("Invalid authentication credentials")
    ELSE Authorized

\* secrets.compare_digest
compare_digest(a, b) == a = b

verify_credentials_either(am, credentials) ==
    IF ~am.enabled THEN Authorized
    ELSE IF ~(compare_digest(credentials.username, am.username)
              \/ compare_digest(credentials.password, am.password))
         THEN Unauthorized("Invalid credentials")
    ELSE Authorized

verify_credentials(am, credentials) ==
    IF ~am.enabled THEN Authorized
    ELSE LET username_ok == compare_digest(credentials.username, am.username)
             password_ok == compare_digest(credentials.password, am.password)
         IN  IF ~(username_ok /\ password_ok)
             THEN Unauthorized("Invalid credentials")
             ELSE Authorized

\* Depends(self.auth_manager.verify_credentials), with its own Depends(security)
\* solved first.
CredentialGate(am, header) ==
    LET basic == HTTPBasic(header)
    IN  IF ~basic.ok THEN basic ELSE verify_credentials(am, header)

ProtectedRouteButUpload(route) == route \in {"index", "browse", "download"}

\* The routes that declare Depends(self.auth_manager.verify_credentials).
ProtectedRoute(route) == route \in {"index", "browse", "download", "upload"}

\* ------------------------------------------------------------------------
\* The file system: a function from the paths that exist to what is there
\* ------------------------------------------------------------------------

Dir == [kind |-> "dir", data |-> << >>]

File(data) == [kind |-> "file", data |-> data]

Exists(tree, p) == p \in DOMAIN tree

IsDirIn(tree, p) == Exists(tree, p) /\ tree[p].kind = "dir"

IsFileIn(tree, p) == Exists(tree, p) /\ tree[p].kind = "file"

Parent(p) == SubSeq(p, 1, Len(p) - 1)

Children(tree, d) == { p \in DOMAIN tree : Len(p) = Len(d) + 1 /\ Parent(p) = d }

Put(tree, p, entry) ==
    [q \in DOMAIN tree \cup {p} |-> IF q = p THEN entry ELSE tree[q]]

\* open(file_path, "wb"): the error it raises, or "" when it opens.
OpenError(tree, p) ==
    IF p = << >> \/ IsDirIn(tree, p) THEN "IsADirectoryError"
    ELSE IF ~Exists(tree, Parent(p)) THEN "FileNotFoundError"
    ELSE IF ~IsDirIn(tree, Parent(p)) THEN "NotADirectoryError"
    ELSE ""

OpenKeep(tree, p) ==
    IF IsFileIn(tree, p) THEN tree ELSE Put(tree, p, File(<< >>))

\* What open(file_path, "wb") leaves at p: an empty file, whatever was there.
OpenTruncate(tree, p) == Put(tree, p, File(<< >>))

\* f.write(chunk) at the handle's offset; a gap left by a truncation is zeros.
WriteAt(data, offset, chunk) ==
    LET end == offset + Len(chunk)
        n == IF Len(data) > end THEN Len(data) ELSE end
    IN  [i \in 1..n |->
            IF i > offset /\ i <= end THEN chunk[i - offset]
            ELSE IF i <= Len(data) THEN data[i]
            ELSE 0]

\* ------------------------------------------------------------------------
\* The order of a listing: sorted(..., key=(not is_dir, name.lower()))
\* ------------------------------------------------------------------------

\* The characters of the model's names, in code point order.
CharOrder ==
    <<"-", ".", "/", "?", "A", "B", "a", "b", "c", "d", "e", "h", "i", "l", "n",
      "o", "p", "r", "s", "t", "u", "v", "w", "x">>

Ord(c) == CHOOSE i \in 1..Len(CharOrder) : CharOrder[i] = c

LowerChar(c) == IF c = "A" THEN "a" ELSE IF c = "B" THEN "b" ELSE c

Lower(s) == [i \in 1..Len(s) |-> LowerChar(s[i])]

\* a < b for strings, as Python compares them
RECURSIVE StrLess(_, _)
StrLess(a, b) ==
    IF b = << >> THEN FALSE
    ELSE IF a = << >> THEN TRUE
    ELSE IF Head(a) # Head(b) THEN Ord(Head(a)) < Ord(Head(b))
    ELSE StrLess(Tail(a), Tail(b))

KeyLessCaseSensitive(x, y) ==
    \/ x.is_dir /\ ~y.is_dir
    \/ x.is_dir = y.is_dir /\ StrLess(x.name, y.name)

\* key(x) < key(y) for the key (not is_dir, name.lower())
KeyLess(x, y) ==
    \/ x.is_dir /\ ~y.is_dir
    \/ x.is_dir = y.is_dir /\ StrLess(Lower(x.name), Lower(y.name))

\* One item of a listing (the modification time is not modelled).
ListingEntry(tree, root, p) ==
    [name |-> p[Len(p)],
     is_dir |-> IsDirIn(tree, p),
     size |-> IF IsFileIn(tree, p) THEN Len(tree[p].data) ELSE 0,
     path |-> SubSeq(p, Len(root) + 1, Len(p))]

\* The orders sorted() can give the children of d: every arrangement in which
\* no item comes after one of a greater key (iterdir's own order decides the
\* order of items of equal keys).
Listings(tree, root, d) ==
    LET items == { ListingEntry(tree, root, p) : p \in Children(tree, d) }
        n == Cardinality(items)
    IN  { s \in [1..n -> items] :
            /\ \A i, j \in 1..n : i # j => s[i] # s[j]
            /\ \A i, j \in 1..n : i < j => ~KeyLess(s[j], s[i]) }

\* mimetypes.guess_type by the suffix of the name
HasSuffix(s, suf) ==
    Len(s) >= Len(suf) /\ SubSeq(s, Len(s) - Len(suf) + 1, Len(s)) = suf

MediaType(name) ==
    IF HasSuffix(name, <<".", "t", "x", "t">>) THEN "text/plain"
    ELSE "application/octet-stream"

\* ------------------------------------------------------------------------
\* State
\* ------------------------------------------------------------------------

VARIABLES
    g_root,        \* the guard on its own: base_path
    g_req,         \* the guard on its own: requested_path
    g_out,         \* the guard on its own: what sanitize_path gave
    auth_manager,  \* SnapDropXServer.auth_manager
    serve_path,    \* SnapDropXServer.serve_path
    fs,            \* the file system
    reqs,          \* per client, the request being handled
    cli,           \* main.serve: its options, locals and position
    tmpfiles       \* the files in the temporary directory

vars == <<g_root, g_req, g_out, auth_manager, serve_path, fs, reqs, cli,
          tmpfiles>>

cli_vars == <<cli, tmpfiles>>

guard_vars == <<g_root, g_req, g_out>>

server_vars == <<auth_manager, serve_path, fs, reqs>>

Clients == {"c1", "c2"}

NoHandle == [path |-> NoPath, offset |-> 0]

NoResp == [status |-> 0, detail |-> "", www |-> "", body |-> << >>]

Idle ==
    [pc |-> "idle", route |-> "none", path |-> << >>, header |-> NoHeader,
     files |-> << >>, authorized |-> FALSE, target |-> NoPath, idx |-> 0,
     pos |-> 0, handle |-> NoHandle, uploaded |-> << >>, errors |-> << >>,
     touched |-> {}, writes |-> {}, resp |-> NoResp]

NotParsed ==
    [ok |-> FALSE, error |-> "", message |-> "", user |-> << >>,
     pwd |-> << >>]

\* None where a string, held as its characters, is expected
NoString == <<None>>

\* serve before it is called
NoServe ==
    [pc |-> "none", auth |-> NoString, ssl |-> FALSE, parsed |-> NotParsed,
     username |-> NoString, password |-> NoString,
     ssl_certfile |-> None, ssl_keyfile |-> None, exit |-> "none"]

\* The tree of the tests' fixture (test.txt, subdir/nested.txt) under
\* /srv/data, and what lies around it.
InitFS ==
    LET root == <<S_srv, S_data>>
    IN  (<< >> :> Dir)
        @@ (<<S_srv>> :> Dir)
        @@ (<<S_etc>> :> Dir)
        @@ (<<S_etc, S_passwd>> :> File(<<9>>))
        @@ (root :> Dir)
        @@ (Append(root, S_test_txt) :> File(<<7, 7, 7>>))
        @@ (Append(root, S_subdir) :> Dir)
        @@ (root \o <<S_subdir, S_nested_txt>> :> File(<<8>>))

\* ------------------------------------------------------------------------
\* The guard on its own: every root and requested path of the bounded sets
\* ------------------------------------------------------------------------

Roots == { <<S_srv, S_data>>, <<S_data>>, << >> }

SegPool == { S_empty, S_dot, S_dotdot, S_data, S_data_other, S_a }

NamedRequests ==
    { JoinSlash(<<S_dotdot, S_dotdot, S_etc, S_passwd>>),
      JoinSlash(<<S_a, S_dotdot, S_dotdot, S_b>>),
      JoinSlash(<<S_empty, S_etc, S_passwd>>),
      JoinSlash(<<S_dotdot, S_empty>>),
      S_empty,
      S_test_txt,
      JoinSlash(<<S_subdir, S_nested_txt>>) }

RequestedPaths ==
    NamedRequests \cup
    { JoinSlash(ss) : ss \in UNION { [1..n -> SegPool] : n \in 1..MaxSegs } }

Pending == [ok |-> FALSE, status |-> 0, detail |-> "", path |-> NoPath]

GuardInit ==
    /\ g_root \in Roots
    /\ g_req \in RequestedPaths
    /\ g_out = Pending
    /\ auth_manager = AuthManager(None, None)
    /\ serve_path = g_root
    /\ fs = InitFS
    /\ reqs = [c \in Clients |-> Idle]
    /\ cli = NoServe
    /\ tmpfiles = {}

Sanitize ==
    /\ g_out = Pending
    /\ g_out' = sanitize_path(g_root, g_req)
    /\ UNCHANGED <<g_root, g_req>>
    /\ UNCHANGED <<server_vars, cli_vars>>

GuardNext == Sanitize

SpecGuard == GuardInit /\ [][GuardNext]_vars

\* ------------------------------------------------------------------------
\* server.SnapDropXServer: one request of client c, step by step
\* ------------------------------------------------------------------------

Respond(r, status, detail, www, body) ==
    [r EXCEPT !.pc = "done",
              !.resp = [status |-> status, detail |-> detail, www |-> www,
                        body |-> body]]

\* The route's function runs: it is given authorized, not the header, and ops
\* are the accesses to the tree it makes.
InHandler(r, ops) == [r EXCEPT !.touched = @ \cup ops, !.header = NoHeader]

\* A request arrives; fastapi solves the route's dependencies before it calls
\* the route's function.
Receive(c, Routes, Paths, Hdrs, Batches) ==
    /\ reqs[c].pc = "idle"
    /\ \E route \in Routes, header \in Hdrs :
       \E path \in (IF route = "health" THEN {S_empty} ELSE Paths) :
       \E files \in (IF route = "upload" THEN Batches ELSE {<< >>}) :
          reqs' = [reqs EXCEPT ![c] =
                     [Idle EXCEPT
                        !.pc = IF ProtectedRoute(route) THEN "auth"
                               ELSE "handler",
                        !.route = route, !.path = path, !.header = header,
                        !.files = files]]
    /\ UNCHANGED <<auth_manager, serve_path, fs>>
    /\ UNCHANGED <<guard_vars, cli_vars>>

Authenticate(c) ==
    LET r == reqs[c]
        gate == CredentialGate(auth_manager, r.header)
    IN  /\ r.pc = "auth"
        /\ reqs' = [reqs EXCEPT ![c] =
                      IF gate.ok
                      THEN [r EXCEPT !.pc = "handler", !.authorized = TRUE]
                      ELSE Respond(r, gate.status, gate.detail, gate.www, << >>)]
        /\ UNCHANGED <<auth_manager, serve_path, fs>>
        /\ UNCHANGED <<guard_vars, cli_vars>>

download_file_unchecked(tree, root, r) ==
    LET g == sanitize_path(root, r.path)
    IN  IF ~g.ok
        THEN Respond(InHandler(r, {"lstat"}), 403, g.detail, "", << >>)
        ELSE IF ~Exists(tree, g.path)
        THEN Respond(InHandler(r, {"lstat", "stat"}), 404, "File not found", "", << >>)
        ELSE Respond(InHandler(r, {"lstat", "stat", "read"}), 200, "", "",
                     [content |-> tree[g.path].data,
                      media_type |-> MediaType(g.path[Len(g.path)]),
                      filename |-> g.path[Len(g.path)]])

\* download_file: the response and the accesses to the tree it made
download_file(tree, root, r) ==
    LET g == sanitize_path(root, r.path)
    IN  IF ~g.ok
        THEN Respond(InHandler(r, {"lstat"}), 403, g.detail, "", << >>)
        ELSE IF ~Exists(tree, g.path)
        THEN Respond(InHandler(r, {"lstat", "stat"}), 404, "File not found", "", << >>)
        ELSE IF ~IsFileIn(tree, g.path)
        THEN Respond(InHandler(r, {"lstat", "stat"}), 400, "Path is not a file", "",
                     << >>)
        ELSE Respond(InHandler(r, {"lstat", "stat", "read"}), 200, "", "",
                     [content |-> tree[g.path].data,
                      media_type |-> MediaType(g.path[Len(g.path)]),
                      filename |-> g.path[Len(g.path)]])

DownloadFile(c) ==
    LET r == reqs[c]
    IN  /\ r.pc = "handler"
        /\ r.route = "download"
        /\ reqs' = [reqs EXCEPT ![c] = download_file(fs, serve_path, r)]
        /\ UNCHANGED <<auth_manager, serve_path, fs>>
        /\ UNCHANGED <<guard_vars, cli_vars>>

ListDirectory(c) ==
    LET r == reqs[c]
        g == sanitize_path(serve_path, r.path)
    IN  /\ r.pc = "handler"
        /\ r.route \in {"index", "browse"}
        /\ IF ~g.ok
           THEN reqs' = [reqs EXCEPT ![c] =
                    Respond(InHandler(r, {"lstat"}), 403, g.detail, "", << >>)]
           ELSE IF ~Exists(fs, g.path)
           THEN reqs' = [reqs EXCEPT ![c] =
                    Respond(InHandler(r, {"lstat", "stat"}), 404,
                            "Directory not found", "", << >>)]
           ELSE IF ~IsDirIn(fs, g.path)
           THEN reqs' = [reqs EXCEPT ![c] = download_file(fs, serve_path, r)]
           ELSE \E items \in Listings(fs, serve_path, g.path) :
                  reqs' = [reqs EXCEPT ![c] =
                    Respond(InHandler(r, {"lstat", "stat", "list"}), 200, "", "",
                            items)]
        /\ UNCHANGED <<auth_manager, serve_path, fs>>
        /\ UNCHANGED <<guard_vars, cli_vars>>

Health(c) ==
    LET r == reqs[c]
    IN  /\ r.pc = "handler"
        /\ r.route = "health"
        /\ reqs' = [reqs EXCEPT ![c] =
                      Respond(r, 200, "", "",
                              [status |-> "healthy", version |-> "1.0.0"])]
        /\ UNCHANGED <<auth_manager, serve_path, fs>>
        /\ UNCHANGED <<guard_vars, cli_vars>>

\* upload_files up to its loop: the guard and the check of the target
UploadBegin(c) ==
    LET r == reqs[c]
        g == sanitize_path(serve_path, r.path)
    IN  /\ r.pc = "handler"
        /\ r.route = "upload"
        /\ reqs' = [reqs EXCEPT ![c] =
              IF ~g.ok
              THEN Respond(InHandler(r, {"lstat"}), 403, g.detail, "", << >>)
              ELSE IF ~Exists(fs, g.path) \/ ~IsDirIn(fs, g.path)
              THEN Respond(InHandler(r, {"lstat", "stat"}), 400,
                           "Invalid upload directory", "", << >>)
              ELSE [InHandler(r, {"lstat", "stat"}) EXCEPT
                        !.pc = "loop", !.target = g.path, !.idx = 1]]
        /\ UNCHANGED <<auth_manager, serve_path, fs>>
        /\ UNCHANGED <<guard_vars, cli_vars>>

InvalidNameEmptyOnly(safe_name) == safe_name = << >>

\* not safe_name or safe_name.startswith(".")
InvalidName(safe_name) == safe_name = << >> \/ Head(safe_name) = "."

\* target_dir / safe_name, as open() resolves it
FilePath(target_dir, safe_name) == Resolve(JoinPath(target_dir, safe_name))

\* (the exception leaving upload_files instead)
OnFileErrorRaise(r, filename, error) ==
    Respond(r, 500, "Internal Server Error", "", << >>)

\* except Exception as e: the file goes to errors and the loop goes on
OnFileError(r, filename, error) ==
    [r EXCEPT !.errors = Append(@, [filename |-> filename, error |-> error]),
              !.idx = @ + 1, !.pc = "loop", !.pos = 0, !.handle = NoHandle]

\* The loop takes the next file: its name is checked and its target opened.
UploadOpen(c) ==
    LET r == reqs[c]
        file == r.files[r.idx]
        safe_name == PathName(file.filename)
        file_path == FilePath(r.target, safe_name)
        error == OpenError(fs, file_path)
    IN  /\ r.pc = "loop"
        /\ r.idx <= Len(r.files)
        /\ IF InvalidName(safe_name)
           THEN /\ reqs' = [reqs EXCEPT ![c] =
                              OnFileError(r, file.filename, "Invalid filename")]
                /\ fs' = fs
           ELSE IF error # ""
           THEN /\ reqs' = [reqs EXCEPT ![c] =
                              OnFileError(r, file.filename, error)]
                /\ fs' = fs
           ELSE /\ fs' = OpenTruncate(fs, file_path)
                /\ reqs' = [reqs EXCEPT ![c] =
                       [r EXCEPT !.pc = "write", !.pos = 0,
                                 !.handle = [path |-> file_path, offset |-> 0],
                                 !.touched = @ \cup {"write"},
                                 !.writes = @ \cup
                                    {[path |-> file_path,
                                      filename |-> file.filename]}]]
        /\ UNCHANGED <<auth_manager, serve_path>>
        /\ UNCHANGED <<guard_vars, cli_vars>>

\* chunk := await file.read(1024 * 1024) gave bytes: f.write(chunk)
UploadWrite(c) ==
    LET r == reqs[c]
        data == r.files[r.idx].data
        last == IF r.pos + ChunkSize < Len(data) THEN r.pos + ChunkSize
                ELSE Len(data)
        chunk == SubSeq(data, r.pos + 1, last)
    IN  /\ r.pc = "write"
        /\ r.pos < Len(data)
        /\ fs' = Put(fs, r.handle.path,
                     File(WriteAt(fs[r.handle.path].data, r.handle.offset, chunk)))
        /\ reqs' = [reqs EXCEPT ![c] =
                      [r EXCEPT !.pos = last,
                                !.handle.offset = @ + Len(chunk)]]
        /\ UNCHANGED <<auth_manager, serve_path>>
        /\ UNCHANGED <<guard_vars, cli_vars>>

\* The read gave no bytes: the file is closed, and its size as stat() gives it
\* goes to uploaded with its name.
UploadClose(c) ==
    LET r == reqs[c]
        file == r.files[r.idx]
    IN  /\ r.pc = "write"
        /\ r.pos = Len(file.data)
        /\ reqs' = [reqs EXCEPT ![c] =
                      [r EXCEPT !.uploaded =
                                   Append(@, [filename |-> PathName(file.filename),
                                              size |-> Len(fs[r.handle.path].data)]),
                                !.touched = @ \cup {"stat"},
                                !.idx = @ + 1, !.pc = "loop", !.pos = 0,
                                !.handle = NoHandle]]
        /\ UNCHANGED <<auth_manager, serve_path, fs>>
        /\ UNCHANGED <<guard_vars, cli_vars>>

\* The loop is over: the summary of the batch
UploadReturn(c) ==
    LET r == reqs[c]
    IN  /\ r.pc = "loop"
        /\ r.idx > Len(r.files)
        /\ reqs' = [reqs EXCEPT ![c] =
                      Respond(r, 200, "", "",
                              [uploaded |-> r.uploaded, errors |-> r.errors,
                               success |-> Len(r.uploaded),
                               failed |-> Len(r.errors)])]
        /\ UNCHANGED <<auth_manager, serve_path, fs>>
        /\ UNCHANGED <<guard_vars, cli_vars>>

\* The response is sent and the client may send its next request.
Reply(c) ==
    /\ reqs[c].pc = "done"
    /\ reqs' = [reqs EXCEPT ![c] = Idle]
    /\ UNCHANGED <<auth_manager, serve_path, fs>>
    /\ UNCHANGED <<guard_vars, cli_vars>>

\* ------------------------------------------------------------------------
\* The server handling one request after the other
\* ------------------------------------------------------------------------

Configs == { <<None, None>>, <<"testuser", "testpass">> }

AllRoutes == {"index", "browse", "download", "upload", "health"}

Headers ==
    { NoHeader, BadHeader,
      BasicHeader("testuser", "testpass"),
      BasicHeader("testuser", "wrongpass"),
      BasicHeader("wronguser", "testpass") }

ServerPaths ==
    { S_empty, S_subdir, S_test_txt, S_nope,
      JoinSlash(<<S_dotdot, S_empty>>),
      JoinSlash(<<S_empty, S_etc, S_passwd>>) }

FileChoices ==
    { [filename |-> S_a_txt, data |-> <<1, 1>>],
      [filename |-> S_a_txt, data |-> <<2>>],
      [filename |-> S_up_evil_txt, data |-> <<3>>],
      [filename |-> S_hidden, data |-> <<4>>],
      [filename |-> S_subdir, data |-> <<5>>] }

Batches == UNION { [1..n -> FileChoices] : n \in 1..MaxFiles }

Init ==
    /\ \E cfg \in Configs : auth_manager = AuthManager(cfg[1], cfg[2])
    /\ serve_path = Resolve(<<S_srv, S_data>>)
    /\ fs = InitFS
    /\ reqs = [c \in Clients |-> Idle]
    /\ cli = NoServe
    /\ tmpfiles = {}
    /\ g_root = << >>
    /\ g_req = << >>
    /\ g_out = Pending

Handle(c) ==
    \/ Receive(c, AllRoutes, ServerPaths, Headers, Batches)
    \/ Authenticate(c)
    \/ ListDirectory(c)
    \/ DownloadFile(c)
    \/ Health(c)
    \/ UploadBegin(c)
    \/ UploadOpen(c)
    \/ UploadWrite(c)
    \/ UploadClose(c)
    \/ UploadReturn(c)
    \/ Reply(c)

Next == Handle("c1")

Spec == Init /\ [][Next]_vars

\* ------------------------------------------------------------------------
\* The server browsing a tree: the served directory holds any of five
\* entries, two of them directories and two of them names that differ in
\* case only; the directory A has a file of its own.
\* ------------------------------------------------------------------------

BrowseNames == {S_A, S_subdir, S_a_txt, S_b_txt, S_B_txt}

BrowseTree(names) ==
    LET root == <<S_srv, S_data>>
        paths == {<< >>, <<S_srv>>, root}
                   \cup { Append(root, n) : n \in names }
                   \cup { root \o <<n, S_nested_txt>> : n \in names \cap {S_A} }
    IN  [p \in paths |->
            IF Len(p) <= 2 THEN Dir
            ELSE IF Len(p) = 4 THEN File(<<8>>)
            ELSE IF p[3] \in {S_A, S_subdir} THEN Dir
            ELSE IF p[3] = S_a_txt THEN File(<<1>>)
            ELSE IF p[3] = S_b_txt THEN File(<<2, 2>>)
            ELSE File(<<3, 3, 3>>)]

BrowsePaths == {S_empty, S_A, S_a_txt, S_nope}

BrowseRoutes == {"index", "browse"}

\* the credentials of the configuration that has some
GoodHeaders == {BasicHeader("testuser", "testpass")}

\* a request that carries no files
NoBatch == {<< >>}

BrowseInit ==
    /\ \E cfg \in Configs : auth_manager = AuthManager(cfg[1], cfg[2])
    /\ serve_path = Resolve(<<S_srv, S_data>>)
    /\ \E names \in SUBSET BrowseNames : fs = BrowseTree(names)
    /\ reqs = [c \in Clients |-> Idle]
    /\ cli = NoServe
    /\ tmpfiles = {}
    /\ g_root = << >>
    /\ g_req = << >>
    /\ g_out = Pending

Browse(c) ==
    \/ Receive(c, BrowseRoutes, BrowsePaths, GoodHeaders, NoBatch)
    \/ Authenticate(c)
    \/ ListDirectory(c)
    \/ Reply(c)

BrowseNext == Browse("c1")

SpecBrowse == BrowseInit /\ [][BrowseNext]_vars

\* ------------------------------------------------------------------------
\* Two clients uploading at once.  The handlers are coroutines of one event
\* loop: a handler runs until it awaits, so another request moves only while
\* this one waits for its dependency, for file.read or for its response to
\* be sent.
\* ------------------------------------------------------------------------

\* between two awaits: the route's function up to its first file.read, and
\* from the read that gave no bytes up to the next file.read or the return
Running(r) == r.pc \in {"handler", "loop"}

Scheduled(c) == \A o \in Clients \ {c} : ~Running(reqs[o])

\* uploads of the same name, of two chunks and more
ConcurrentChoices ==
    { [filename |-> S_a_txt, data |-> <<1, 1>>],
      [filename |-> S_a_txt, data |-> <<2, 2, 2>>] }

ConcurrentBatches == { <<f>> : f \in ConcurrentChoices }

UploadRoute == {"upload"}

\* the served root, as the path of a request
RootPath == {S_empty}

ConcurrentUpload(c) ==
    \/ Scheduled(c) /\ Receive(c, UploadRoute, RootPath, GoodHeaders,
                               ConcurrentBatches)
    \/ Scheduled(c) /\ Authenticate(c)
    \/ Scheduled(c) /\ UploadBegin(c)
    \/ Scheduled(c) /\ UploadOpen(c)
    \/ Scheduled(c) /\ UploadWrite(c)
    \/ Scheduled(c) /\ UploadClose(c)
    \/ Scheduled(c) /\ UploadReturn(c)
    \/ Scheduled(c) /\ Reply(c)

ConcurrentNext == \E c \in Clients : ConcurrentUpload(c)

SpecConcurrent == Init /\ [][ConcurrentNext]_vars

\* ------------------------------------------------------------------------
\* main.serve, the command that starts the server
\* ------------------------------------------------------------------------

\* the two files tempfile.mkstemp makes for generate_self_signed_cert
CertFile == "tmp.crt"
KeyFile == "tmp.key"

AuthChars == {"u", "p", ":"}

\* the --auth strings tried: every string of AuthChars up to MaxAuthLen, and
\* the ones the tests name
AuthStrings ==
    UNION {[1..n -> AuthChars] : n \in 0..MaxAuthLen}
      \cup {S_user \o <<":">> \o S_pass,
            S_user \o <<":">> \o S_pass \o <<":">> \o S_word,
            <<":">> \o S_pass,
            S_user \o <<":">>,
            S_noseparator}

\* serve is called with its options
ServeInit ==
    /\ \E a \in {NoString} \cup AuthStrings, s \in BOOLEAN :
           cli = [NoServe EXCEPT !.pc = "auth", !.auth = a, !.ssl = s]
    /\ tmpfiles = {}
    /\ auth_manager = AuthManager(None, None)
    /\ serve_path = Resolve(<<S_srv, S_data>>)
    /\ fs = InitFS
    /\ reqs = [c \in Clients |-> Idle]
    /\ g_root = << >>
    /\ g_req = << >>
    /\ g_out = Pending

\* leaving serve; the optional cleanup is the finally clause
Exit(c, code) == [c EXCEPT !.pc = "exited", !.exit = code]

\* "if auth:" and the try around parse_auth_string
ServeParseAuth ==
    /\ cli.pc = "auth"
    /\ IF cli.auth = NoString \/ cli.auth = << >>
       THEN cli' = [cli EXCEPT !.pc = "ssl"]
       ELSE LET res == parse_auth_string(cli.auth)
            IN  IF res.ok
                THEN cli' = [cli EXCEPT !.pc = "ssl", !.parsed = res,
                                        !.username = res.user,
                                        !.password = res.pwd]
                ELSE cli' = [Exit(cli, "1") EXCEPT !.parsed = res]
    /\ UNCHANGED <<guard_vars, server_vars, tmpfiles>>

\* "if ssl:" with generate_self_signed_cert returning the two paths
ServeGenerateCert ==
    /\ cli.pc = "ssl"
    /\ IF cli.ssl
       THEN /\ tmpfiles' = tmpfiles \cup {CertFile, KeyFile}
            /\ cli' = [cli EXCEPT !.pc = "build", !.ssl_certfile = CertFile,
                                  !.ssl_keyfile = KeyFile]
       ELSE /\ tmpfiles' = tmpfiles
            /\ cli' = [cli EXCEPT !.pc = "build"]
    /\ UNCHANGED <<guard_vars, server_vars>>

\* what a generate_self_signed_cert that raises has made by then
PartlyGenerated == {{}, {CertFile}}

\* how uvicorn.run ends
RunOutcomes == {"return", "error", "KeyboardInterrupt"}

\* generate_self_signed_cert raising: before its first mkstemp, or after it
ServeGenerateCertFails ==
    /\ cli.pc = "ssl"
    /\ cli.ssl
    /\ \E made \in PartlyGenerated : tmpfiles' = tmpfiles \cup made
    /\ cli' = Exit(cli, "error")
    /\ UNCHANGED <<guard_vars, server_vars>>

\* server = SnapDropXServer(path, username, password)
ServeBuild ==
    /\ cli.pc = "build"
    /\ cli' = [cli EXCEPT !.pc = "run"]
    /\ UNCHANGED <<guard_vars, server_vars, tmpfiles>>

\* SnapDropXServer raising (a missing static directory, say): no try is open
ServeBuildFails ==
    /\ cli.pc = "build"
    /\ cli' = Exit(cli, "error")
    /\ UNCHANGED <<guard_vars, server_vars, tmpfiles>>

\* Ctrl+C before the try statement is entered
ServeInterruptedEarly ==
    /\ cli.pc \in {"ssl", "build"}
    /\ cli' = Exit(cli, "KeyboardInterrupt")
    /\ UNCHANGED <<guard_vars, server_vars, tmpfiles>>

\* the finally clause: unlink(missing_ok=True) of each path that is set
Finally(c, files) ==
    (files \ (IF c.ssl_certfile # None THEN {c.ssl_certfile} ELSE {}))
          \ (IF c.ssl_keyfile # None THEN {c.ssl_keyfile} ELSE {})

\* the try statement: uvicorn.run returns, raises, or is interrupted
ServeRun ==
    /\ cli.pc = "run"
    /\ \E outcome \in RunOutcomes :
           cli' = Exit(cli, CASE outcome = "return" -> "0"
                              [] outcome = "error" -> "error"
                              [] OTHER -> "0")
    /\ tmpfiles' = Finally(cli, tmpfiles)
    /\ UNCHANGED <<guard_vars, server_vars>>

ServeNext ==
    \/ ServeParseAuth
    \/ ServeGenerateCert
    \/ ServeGenerateCertFails
    \/ ServeBuild
    \/ ServeBuildFails
    \/ ServeInterruptedEarly
    \/ ServeRun

SpecServe == ServeInit /\ [][ServeNext]_vars

\* ------------------------------------------------------------------------
\* The resolution the claims speak of, computed independently of the code:
\* the string root + "/" + p, split on "/", normalised from the right with a
\* count of the ".." still to be applied.
\* ------------------------------------------------------------------------

RECURSIVE NormFromRight(_, _, _, _)
NormFromRight(segs, i, skip, acc) ==
    IF i = 0 THEN acc
    ELSE IF segs[i] = << >> \/ segs[i] = <<".">>
         THEN NormFromRight(segs, i - 1, skip, acc)
    ELSE IF segs[i] = <<".", ".">>
         THEN NormFromRight(segs, i - 1, skip + 1, acc)
    ELSE IF skip > 0
         THEN NormFromRight(segs, i - 1, skip - 1, acc)
    ELSE NormFromRight(segs, i - 1, skip, <<segs[i]>> \o acc)

LexicalResolution(root, p) ==
    LET segs == SplitSlash(Render(root) \o <<"/">> \o p)
    IN  NormFromRight(segs, Len(segs), 0, << >>)

\* root itself or a descendant of root, by whole segments
InsideRoot(path, root) ==
    /\ Len(path) >= Len(root)
    /\ \A i \in 1..Len(root) : path[i] = root[i]

Sanitized == g_out # Pending

\* C1: a requested path whose resolution against the root is neither the root
\* nor a descendant of it (by segments) is rejected with 403 and no path.
C1_TraversalForbidden ==
    (Sanitized /\ ~InsideRoot(LexicalResolution(g_root, g_req), g_root))
        => (g_out.status = 403 /\ ~g_out.ok /\ g_out.path = NoPath)

\* the sibling /srv/data-other of the root /srv/data is rejected
C1_Witness ==
    /\ Sanitized
    /\ g_root = <<S_srv, S_data>>
    /\ LexicalResolution(g_root, g_req) = <<S_srv, S_data_other>>
    /\ g_out.status = 403

\* C2: a requested path in absolute-path syntax that names a location outside
\* the served root ("/etc/passwd") is rejected with an HTTP error.
C2_AbsoluteRejected ==
    (Sanitized /\ IsAbsolute(g_req)
               /\ ~InsideRoot(Resolve(Parts(g_req)), g_root))
        => (~g_out.ok /\ g_out.status = 403)

Presents(header, am) ==
    /\ header.kind = "basic"
    /\ header.username = am.username
    /\ header.password = am.password

NoCredentialsConfigured ==
    auth_manager.username = None /\ auth_manager.password = None

\* C4: with no credentials configured, no request to a protected route ends
\* in 401 Unauthorized, whatever it presents, also when it presents nothing.
C4_DisabledGateNeverUnauthorized ==
    \A c \in Clients :
        (NoCredentialsConfigured /\ ProtectedRoute(reqs[c].route)
            /\ reqs[c].pc = "done")
        => reqs[c].resp.status # 401

\* C5: with a pair configured, a request to a protected route reaches its
\* handler exactly when it presents that username and that password; any other
\* is answered 401 with a WWW-Authenticate challenge, and a wrong username and
\* a wrong password get the same answer.
C5_GateDecides ==
    \A c \in Clients :
        LET r == reqs[c]
        IN  (auth_manager.enabled /\ ProtectedRoute(r.route)) =>
            /\ r.pc = "handler"
                 => (r.authorized /\ Presents(r.header, auth_manager))
            /\ (r.pc = "done" /\ r.resp.status = 401) =>
                 /\ ~Presents(r.header, auth_manager)
                 /\ ~r.authorized
                 /\ r.resp.www = "Basic"
                 /\ r.header.kind = "basic"
                      => r.resp = [status |-> 401,
                                   detail |-> "Invalid credentials",
                                   www |-> "Basic", body |-> << >>]

\* a request with the right username and a wrong password has been rejected
C5_Witness ==
    \E c \in Clients :
        /\ auth_manager.enabled
        /\ reqs[c].pc = "done"
        /\ reqs[c].resp.status = 401
        /\ reqs[c].header = BasicHeader("testuser", "wrongpass")

\* C6: on a protected route nothing runs before the credential check has
\* passed: the guard and every access to the tree belong to an authorized
\* request, a request answered 401 has made no access at all, and a request
\* answered 403 has listed, read, created and modified nothing.
C6_GateBeforeGuardBeforeTree ==
    \A c \in Clients :
        LET r == reqs[c]
        IN  /\ (r.touched # {} \/ r.writes # {} \/ r.target # NoPath)
                 => r.authorized
            /\ r.resp.status = 401 => (r.touched = {} /\ r.writes = {})
            /\ r.resp.status = 403 => (r.touched \subseteq {"lstat"}
                                       /\ r.writes = {})

\* an upload without credentials was answered 401
C6_Witness ==
    \E c \in Clients :
        /\ reqs[c].pc = "done"
        /\ reqs[c].route = "upload"
        /\ reqs[c].resp.status = 401
        /\ reqs[c].header = NoHeader

\* ------------------------------------------------------------------------
\* Uploads
\* ------------------------------------------------------------------------

\* The basename of a supplied filename: its last segment that is neither
\* empty nor ".", or "" when it has none.
BasenameOf(filename) ==
    LET segs == SplitSlash(filename)
        named == { i \in 1..Len(segs) : segs[i] # << >> /\ segs[i] # <<".">> }
    IN  IF named = {} THEN << >>
        ELSE segs[CHOOSE i \in named : \A j \in named : j <= i]

LastOf(path) == path[Len(path)]

\* C7: every file an upload opens for writing is a direct child of the
\* guarded target directory, named by the basename of the supplied filename,
\* which is not empty and does not start with "."; whatever lies outside the
\* served root stays as it was, and nothing new appears outside a directory
\* of the served tree.
C7_WritesStayInTarget ==
    /\ \A c \in Clients : \A w \in reqs[c].writes :
          /\ InsideRoot(reqs[c].target, serve_path)
          /\ Len(w.path) = Len(reqs[c].target) + 1
          /\ Parent(w.path) = reqs[c].target
          /\ LastOf(w.path) = BasenameOf(w.filename)
          /\ LastOf(w.path) # << >>
          /\ LastOf(w.path)[1] # "."
          /\ InsideRoot(w.path, serve_path)
    /\ \A p \in DOMAIN fs :
          \/ p \in DOMAIN InitFS /\ (fs[p] = InitFS[p] \/ InsideRoot(p, serve_path))
          \/ /\ InsideRoot(p, serve_path)
             /\ p # serve_path
             /\ LastOf(p)[1] # "."

\* "../evil.txt" was uploaded to subdir and written to subdir/evil.txt
C7_Witness ==
    \E c \in Clients :
        /\ reqs[c].target = Append(serve_path, S_subdir)
        /\ [path |-> serve_path \o <<S_subdir, S_evil_txt>>,
            filename |-> S_up_evil_txt] \in reqs[c].writes
        /\ IsFileIn(fs, serve_path \o <<S_subdir, S_evil_txt>>)

\* how many entries of seq carry the filename name
CountNamed(seq, name) ==
    Cardinality({ i \in 1..Len(seq) : seq[i].filename = name })

UploadDone(r) == r.pc = "done" /\ r.route = "upload" /\ r.resp.status = 200

\* C8 as the claim states it: every file supplied as "../evil.txt" is
\* reported in errors and counted in failed, and none is stored.
C8_EvilRejected ==
    \A c \in Clients :
        LET r == reqs[c]
        IN  UploadDone(r) =>
              /\ CountNamed(r.resp.body.errors, S_up_evil_txt) = CountNamed(r.files, S_up_evil_txt)
              /\ r.resp.body.failed >= CountNamed(r.files, S_up_evil_txt)
              /\ \A w \in r.writes : w.filename # S_up_evil_txt

\* C8, amended: a file supplied as "../evil.txt" is taken under its basename:
\* it is stored as evil.txt directly in the target directory and reported in
\* uploaded as "evil.txt" and counted in success, never reported as an
\* invalid filename, and its bytes are written nowhere but to that file.
C8_EvilStoredByBasename ==
    \A c \in Clients :
        LET r == reqs[c]
        IN  (UploadDone(r) /\ CountNamed(r.files, S_up_evil_txt) > 0) =>
              /\ CountNamed(r.resp.body.errors, S_up_evil_txt) = 0
              /\ CountNamed(r.resp.body.uploaded, S_evil_txt)
                   = CountNamed(r.files, S_up_evil_txt)
              /\ r.resp.body.success >= CountNamed(r.files, S_up_evil_txt)
              /\ IsFileIn(fs, Append(r.target, S_evil_txt))
              /\ \A w \in r.writes :
                    w.filename = S_up_evil_txt
                       => w.path = Append(r.target, S_evil_txt)

\* a batch of the one file "../evil.txt" ended with one success and no failure
C8_Witness ==
    \E c \in Clients :
        /\ UploadDone(reqs[c])
        /\ reqs[c].files = <<[filename |-> S_up_evil_txt, data |-> <<3>>]>>
        /\ reqs[c].resp.body.success = 1
        /\ reqs[c].resp.body.failed = 0

\* The files of a batch that upload_files can store: a valid basename that
\* does not name a directory of the target.
Storable(r, i) ==
    LET name == BasenameOf(r.files[i].filename)
    IN  /\ name # << >>
        /\ name[1] # "."
        /\ ~IsDirIn(fs, Append(r.target, name))

\* C9: with requests handled one after the other, when an upload is done
\* each stored name holds exactly the bytes of the last file of the batch
\* with that basename, whatever the name held before (a longer file
\* included), and every storable file of the batch is a success: two files
\* of one basename give success = 2 and no error.
C9_LastWriteIsContent ==
    \A c \in Clients :
        LET r == reqs[c]
            n == Len(r.files)
        IN  UploadDone(r) =>
              /\ \A i \in 1..n :
                    (Storable(r, i) /\ \A j \in (i + 1)..n :
                         BasenameOf(r.files[j].filename)
                            # BasenameOf(r.files[i].filename))
                    => fs[Append(r.target, BasenameOf(r.files[i].filename))]
                          = File(r.files[i].data)
              /\ r.resp.body.success
                    = Cardinality({ i \in 1..n : Storable(r, i) })
              /\ \A k \in 1..Len(r.resp.body.errors) :
                    \E i \in 1..n :
                       /\ ~Storable(r, i)
                       /\ r.files[i].filename = r.resp.body.errors[k].filename

\* a.txt was uploaded twice in one batch, two bytes and then one: it holds
\* the one byte of the second, and both are successes
C9_Witness ==
    \E c \in Clients :
        /\ UploadDone(reqs[c])
        /\ reqs[c].files = <<[filename |-> S_a_txt, data |-> <<1, 1>>],
                             [filename |-> S_a_txt, data |-> <<2>>]>>
        /\ fs[Append(reqs[c].target, S_a_txt)] = File(<<2>>)
        /\ reqs[c].resp.body.success = 2
        /\ reqs[c].resp.body.errors = << >>

\* The files of a batch that mask marks with b, in the order of the batch.
Pick(files, mask, b) ==
    LET idxs == SelectSeq([i \in 1..Len(files) |-> i], LAMBDA i : mask[i] = b)
    IN  [k \in 1..Len(idxs) |-> files[idxs[k]]]

\* C10: a file that fails does not end the batch.  While the loop runs, the
\* files taken so far are each in exactly one of the two lists; once the
\* target directory was accepted the request ends with the summary, in
\* which the files of the batch are split, in order, between uploaded (by
\* basename) and errors (by supplied filename), success and failed are the
\* lengths of the two lists, and they add up to the number of files.
C10_BatchAccounting ==
    \A c \in Clients :
        LET r == reqs[c]
            n == Len(r.files)
        IN  /\ r.pc \in {"loop", "write"} =>
                 /\ r.idx \in 1..(n + 1)
                 /\ Len(r.uploaded) + Len(r.errors) = r.idx - 1
            /\ (r.pc = "done" /\ r.route = "upload" /\ r.target # NoPath) =>
                 /\ r.resp.status = 200
                 /\ r.resp.body.success = Len(r.resp.body.uploaded)
                 /\ r.resp.body.failed = Len(r.resp.body.errors)
                 /\ r.resp.body.success + r.resp.body.failed = n
                 /\ \E mask \in [1..n -> BOOLEAN] :
                       /\ [k \in 1..Len(r.resp.body.uploaded) |->
                              r.resp.body.uploaded[k].filename]
                          = [k \in 1..Len(Pick(r.files, mask, TRUE)) |->
                              BasenameOf(Pick(r.files, mask, TRUE)[k].filename)]
                       /\ [k \in 1..Len(r.resp.body.errors) |->
                              r.resp.body.errors[k].filename]
                          = [k \in 1..Len(Pick(r.files, mask, FALSE)) |->
                              Pick(r.files, mask, FALSE)[k].filename]

\* the first file of a batch failed and the second was stored
C10_Witness ==
    \E c \in Clients :
        /\ UploadDone(reqs[c])
        /\ Len(reqs[c].files) = 2
        /\ reqs[c].files[1].filename = S_hidden
        /\ reqs[c].resp.body.failed = 1
        /\ reqs[c].resp.body.success = 1
        /\ reqs[c].resp.body.uploaded[1].filename = S_a_txt

\* ------------------------------------------------------------------------
\* parse_auth_string
\* ------------------------------------------------------------------------

\* serve has passed a non-empty --auth string to parse_auth_string
AuthParsed == cli.pc # "auth" /\ cli.auth # NoString /\ cli.auth # << >>

FirstColonAt(auth, k) ==
    /\ k \in 1..Len(auth)
    /\ auth[k] = ":"
    /\ \A j \in 1..(k - 1) : auth[j] # ":"

\* C11: parse_auth_string splits on the first ":" only.  Whenever the input
\* is user + ":" + pass with user non-empty and free of ":" and pass
\* non-empty (":" allowed in it), the result is (user, pass), and serve goes
\* on with exactly these; "user:pass:word" gives ("user", "pass:word").  An
\* input without ":" and an input whose part before or after the first ":"
\* is empty raise ValueError, and serve exits with code 1.
C11_SplitOnFirstColon ==
    AuthParsed =>
        LET a == cli.auth
            r == cli.parsed
        IN  /\ \A k \in 1..Len(a) :
                   (FirstColonAt(a, k) /\ 1 < k /\ k < Len(a)) =>
                       /\ r.ok
                       /\ r.user = SubSeq(a, 1, k - 1)
                       /\ r.pwd = SubSeq(a, k + 1, Len(a))
                       /\ cli.username = r.user
                       /\ cli.password = r.pwd
            /\ ( \/ \A k \in 1..Len(a) : a[k] # ":"
                 \/ FirstColonAt(a, 1)
                 \/ FirstColonAt(a, Len(a)) ) =>
                   /\ ~r.ok
                   /\ r.error = "ValueError"
                   /\ cli.pc = "exited"
                   /\ cli.exit = "1"
            /\ a = S_user \o <<":">> \o S_pass \o <<":">> \o S_word =>
                   /\ r.ok
                   /\ r.user = S_user
                   /\ r.pwd = S_pass \o <<":">> \o S_word
            /\ a \in {<<":">> \o S_pass, S_user \o <<":">>, S_noseparator} =>
                   r.error = "ValueError"

C11_Witness ==
    /\ AuthParsed
    /\ cli.auth = S_user \o <<":">> \o S_pass \o <<":">> \o S_word
    /\ cli.parsed.ok
    /\ cli.parsed.pwd = S_pass \o <<":">> \o S_word
    /\ cli.pc = "ssl"

\* ------------------------------------------------------------------------
\* The temporary certificate of serve --ssl
\* ------------------------------------------------------------------------

\* generate_self_signed_cert has returned its two files to serve
CertGenerated == cli.ssl_certfile # None /\ cli.ssl_keyfile # None

\* C14: once generate_self_signed_cert has created the certificate file and
\* the key file, no exit of serve leaves either on disk: not the normal
\* return of the server, not an error raised while building or running it,
\* not a keyboard interrupt.
C14_CertFilesRemovedOnEveryExit ==
    (cli.pc = "exited" /\ CertGenerated) =>
        (cli.ssl_certfile \notin tmpfiles /\ cli.ssl_keyfile \notin tmpfiles)

\* ------------------------------------------------------------------------
\* Listing and download
\* ------------------------------------------------------------------------

\* the names of a listing, in its order
ListedNames(items) == [i \in 1..Len(items) |-> items[i].name]

\* C12: list_directory of a guarded directory returns its direct children,
\* each once and nothing below them, every directory before every file and,
\* within the directories and within the files, in the order of the
\* lower-cased names; a directory holding b.txt, a.txt and the directory A is
\* listed as A, a.txt, b.txt.
C12_ListingOrder ==
    \A c \in Clients :
        LET r == reqs[c]
            d == LexicalResolution(serve_path, r.path)
        IN  (r.pc = "done" /\ r.route \in {"index", "browse"} /\ r.authorized
               /\ InsideRoot(d, serve_path) /\ IsDirIn(fs, d)) =>
              /\ r.resp.status = 200
              /\ LET items == r.resp.body
                     n == Len(items)
                 IN  /\ n = Cardinality(Children(fs, d))
                     /\ \A p \in Children(fs, d) :
                            \E i \in 1..n : items[i].name = LastOf(p)
                     /\ \A i \in 1..n :
                            /\ Append(d, items[i].name) \in Children(fs, d)
                            /\ items[i].is_dir = IsDirIn(fs, Append(d, items[i].name))
                     /\ \A i, j \in 1..n :
                            i < j =>
                              /\ ~(~items[i].is_dir /\ items[j].is_dir)
                              /\ items[i].is_dir = items[j].is_dir =>
                                   ~StrLess(Lower(items[j].name),
                                            Lower(items[i].name))
                     /\ { LastOf(p) : p \in Children(fs, d) }
                            = {S_b_txt, S_A, S_a_txt} =>
                          ListedNames(items) = <<S_A, S_a_txt, S_b_txt>>

C12_Witness ==
    LET r == reqs["c1"]
    IN  /\ r.pc = "done"
        /\ r.route = "browse"
        /\ r.path = S_empty
        /\ r.resp.status = 200
        /\ { LastOf(p) : p \in Children(fs, serve_path) }
               = {S_b_txt, S_A, S_a_txt}
        /\ ListedNames(r.resp.body) = <<S_A, S_a_txt, S_b_txt>>

\* C13: download_file of a guarded path that does not exist answers 404, of
\* a guarded path that is a directory answers 400 without reading or
\* returning any bytes; it answers 200, with the bytes of the file, exactly
\* when the path is an existing regular file.
C13_DownloadOutcome ==
    \A c \in Clients :
        LET r == reqs[c]
            p == LexicalResolution(serve_path, r.path)
        IN  (r.pc = "done" /\ r.route = "download" /\ r.authorized
               /\ InsideRoot(p, serve_path)) =>
              /\ ~Exists(fs, p) =>
                    /\ r.resp.status = 404
                    /\ r.resp.detail = "File not found"
                    /\ r.resp.body = << >>
              /\ IsDirIn(fs, p) =>
                    /\ r.resp.status = 400
                    /\ r.resp.detail = "Path is not a file"
                    /\ r.resp.body = << >>
                    /\ "read" \notin r.touched
              /\ r.resp.status = 200 <=> IsFileIn(fs, p)
              /\ IsFileIn(fs, p) =>
                    /\ r.resp.status = 200
                    /\ r.resp.body.content = fs[p].data

C13_Witness ==
    LET r == reqs["c1"]
    IN  /\ r.pc = "done"
        /\ r.route = "download"
        /\ r.authorized
        /\ r.path = S_subdir
        /\ IsDirIn(fs, Append(serve_path, S_subdir))
        /\ r.resp.status = 400

\* ------------------------------------------------------------------------
\* Concurrent uploads of one name
\* ------------------------------------------------------------------------

\* both uploads of the same name into the same directory have finished
BothUploaded ==
    /\ \A c \in Clients :
          /\ UploadDone(reqs[c])
          /\ reqs[c].resp.body.success = 1
    /\ reqs["c1"].target = reqs["c2"].target
    /\ PathName(reqs["c1"].files[1].filename) =
           PathName(reqs["c2"].files[1].filename)

\* C15: once two uploads of the same basename into the same directory have
\* both finished, the file holds the complete payload of one of them, never
\* bytes of both, and the size each upload reports is the length of its own
\* payload.
C15_ConcurrentLastWriteWins ==
    BothUploaded =>
        LET stored == FilePath(reqs["c1"].target,
                               PathName(reqs["c1"].files[1].filename))
        IN  /\ fs[stored].data \in { reqs[c].files[1].data : c \in Clients }
            /\ \A c \in Clients :
                   reqs[c].resp.body.uploaded[1].size
                       = Len(reqs[c].files[1].data)

====
